---------------------------- MODULE Spec2Model ----------------------------
(***************************************************************************)
(* Model of TCPWebSocketAdapter (tcp_websocket_adapter.py): a bridge that  *)
(* accepts WebSocket connections, dials one TCP upstream per connection    *)
(* and relays CR LF delimited frames between the two transports.           *)
(*                                                                         *)
(* Bytes are integers 0..255, a bytes object is a sequence of bytes, a str *)
(* is a sequence of Unicode code points.  A WebSocket message is a record  *)
(* [kind |-> "text" | "bin", data |-> sequence].                           *)
(***************************************************************************)
EXTENDS Integers, Sequences, FiniteSets, TLC

VARIABLES
    ws_server,          \* self._ws_server: 0 (None) or the id of a server object
    ws_server_runner_task,        \* self._ws_server_runner_task: 0 (None) or a task id
    buffer_size,        \* self.buffer_size
    tasks,              \* the runner tasks ever created: position and pending cancel
    servers,            \* the websockets server objects: servers[t] is bound by task t
    stops,              \* the stop() calls: position and the awaitables they wait on
    sess,               \* one record per WebSocket connection (handler + 2 forwarders)
    tcp,                \* one record per TCP connection opened by open_connection
    fr                  \* scratch state of the framing round trip (pure functions)

vars == <<ws_server, ws_server_runner_task, buffer_size, tasks, servers, stops, sess, tcp, fr>>

lifecycle == <<ws_server, ws_server_runner_task, tasks, servers, stops>>

-----------------------------------------------------------------------------
(* Bounds of the model *)

MaxRuns == 2
MaxStops == 2
MaxStream == 5
MaxWsMsgs == 2
MaxPayload == 3

(* Program constants *)

CR == 13
LF == 10
DefaultBufferSize == 1024

TaskIds == 1..MaxRuns
StopIds == 1..MaxStops
Sessions == {1, 2}
Conns == {1, 2}

Delimiter == <<CR, LF>>

-----------------------------------------------------------------------------
(* Pure functions: bytes, str.encode(), partition *)

\* str.encode() of one code point (UTF-8)
EncodeCodePoint(cp) ==
    IF cp < 128 THEN <<cp>>
    ELSE IF cp < 2048 THEN <<192 + (cp \div 64), 128 + (cp % 64)>>
    ELSE IF cp < 65536 THEN
        <<224 + (cp \div 4096), 128 + ((cp \div 64) % 64), 128 + (cp % 64)>>
    ELSE <<240 + (cp \div 262144), 128 + ((cp \div 4096) % 64),
           128 + ((cp \div 64) % 64), 128 + (cp % 64)>>

RECURSIVE StrEncode(_)
StrEncode(str) ==
    IF str = <<>> THEN <<>>
    ELSE EncodeCodePoint(Head(str)) \o StrEncode(Tail(str))

\* message.encode('latin-1', 'replace'): one byte per code point
NormalizeMessageLatin1(message) ==
    IF message.kind = "text"
    THEN [k \in 1..Len(message.data) |->
             IF message.data[k] < 256 THEN message.data[k] ELSE 63]
    ELSE message.data

\* lines 97-98: if isinstance(message, str): message = message.encode()
NormalizeMessage(message) ==
    IF message.kind = "text" THEN StrEncode(message.data) ELSE message.data

\* message + b'\n'
EncodeFrameLF(message) == NormalizeMessage(message) \o <<LF>>

\* line 100: message + b'\r\n'
EncodeFrame(message) == NormalizeMessage(message) \o Delimiter

\* b'\r\n' in buffer
HasDelimiter(buffer) ==
    \E i \in 1..(Len(buffer) - 1) : buffer[i] = CR /\ buffer[i + 1] = LF

\* index of the first b'\r\n' in buffer (0 when absent)
FindDelimiter(buffer) ==
    IF HasDelimiter(buffer)
    THEN CHOOSE i \in 1..(Len(buffer) - 1) :
            /\ buffer[i] = CR /\ buffer[i + 1] = LF
            /\ \A j \in 1..(i - 1) : ~(buffer[j] = CR /\ buffer[j + 1] = LF)
    ELSE 0

\* a partition that leaves the second byte of the separator in `after`
PartitionKeepsLF(buffer) ==
    LET i == FindDelimiter(buffer) IN
    IF i = 0
    THEN [before |-> buffer, sep |-> <<>>, after |-> <<>>]
    ELSE [before |-> SubSeq(buffer, 1, i - 1),
          sep    |-> <<CR>>,
          after  |-> SubSeq(buffer, i + 1, Len(buffer))]

\* buffer.partition(b'\r\n'): (before, sep, after); (buffer, b'', b'') when absent
Partition(buffer) ==
    LET i == FindDelimiter(buffer) IN
    IF i = 0
    THEN [before |-> buffer, sep |-> <<>>, after |-> <<>>]
    ELSE [before |-> SubSeq(buffer, 1, i - 1),
          sep    |-> Delimiter,
          after  |-> SubSeq(buffer, i + 2, Len(buffer))]

\* buffer = data: what was kept from earlier reads is lost
ExtendForgets(buffer, data) == data

\* buffer.extend(data)
Extend(buffer, data) == buffer \o data

\* lines 72-73 run to completion on one buffer: the messages cut and what is kept
RECURSIVE DecodeBuffer(_)
DecodeBuffer(buffer) ==
    IF HasDelimiter(buffer)
    THEN LET p == Partition(buffer)
             rest == DecodeBuffer(p.after)
         IN [messages |-> <<p.before>> \o rest.messages, buffer |-> rest.buffer]
    ELSE [messages |-> <<>>, buffer |-> buffer]

-----------------------------------------------------------------------------
(* State of one WebSocket connection and of one TCP connection *)

NoSession ==
    [st |-> "free", srv |-> 0, conn |-> 0, dials |-> 0,
     ws |-> "none", wsSent |-> <<>>, wsIn |-> <<>>, wsOut |-> <<>>,
     forward_tcp_task |-> "idle", buffer |-> <<>>, message |-> <<>>, sendFailed |-> FALSE,
     forward_ws_task |-> "idle", ws_task_exc |-> FALSE,
     cancel_tcp |-> FALSE, cancel_ws |-> FALSE]

NoConn ==
    [state |-> "none", peer |-> "none", inb |-> <<>>, rx |-> <<>>,
     out |-> <<>>, unflushed |-> 0, wclosed |-> FALSE]

Min(a, b) == IF a < b THEN a ELSE b

\* the connection object open_connection returns: a new one on every call
NewConn ==
    CHOOSE c \in Conns :
        tcp[c].state = "none" /\ \A d \in Conns : d < c => tcp[d].state # "none"

\* task.done() of a forwarder task: returned, raised, or cancelled
ForwarderDone(pc) == pc \in {"done", "error", "cancelled"}

-----------------------------------------------------------------------------
(* _forward_tcp_to_ws, lines 62-84 *)

\* lines 72-73: the loop test and one partition of the buffer
NextMessage(buffer) ==
    IF HasDelimiter(buffer)
    THEN [forward_tcp_task |-> "send",
          message |-> Partition(buffer).before,
          buffer |-> Partition(buffer).after]
    ELSE [forward_tcp_task |-> "read", message |-> <<>>, buffer |-> buffer]

\* lines 66-73: one completion of await reader.read(self.buffer_size)
TcpRead(s) ==
    LET c == sess[s].conn IN
    /\ sess[s].forward_tcp_task = "read" /\ ~sess[s].cancel_tcp
    /\ IF tcp[c].peer = "reset"
       THEN \* read raises ConnectionResetError: not caught at line 81
            /\ sess' = [sess EXCEPT ![s].forward_tcp_task = "error"]
            /\ tcp' = tcp
       ELSE IF tcp[c].inb # <<>>
       THEN \E k \in 1..Min(buffer_size, Len(tcp[c].inb)) :
              LET data == SubSeq(tcp[c].inb, 1, k)
                  nm == NextMessage(Extend(sess[s].buffer, data))
              IN /\ tcp' = [tcp EXCEPT ![c].inb = SubSeq(tcp[c].inb, k + 1, Len(tcp[c].inb)),
                                       ![c].rx = tcp[c].rx \o data]
                 /\ sess' = [sess EXCEPT ![s].forward_tcp_task = nm.forward_tcp_task,
                                         ![s].message = nm.message,
                                         ![s].buffer = nm.buffer]
       ELSE \* not data: end of stream (peer closed, or the transport was closed)
            /\ tcp[c].peer = "eof" \/ tcp[c].wclosed
            /\ sess' = [sess EXCEPT ![s].forward_tcp_task = "done"]
            /\ tcp' = tcp
    /\ UNCHANGED <<lifecycle, buffer_size, fr>>

\* lines 75-79: one completion of await websocket.send(message)
WsSend(s) ==
    /\ sess[s].forward_tcp_task = "send" /\ ~sess[s].cancel_tcp
    /\ IF sess[s].ws = "open"
       THEN LET nm == NextMessage(sess[s].buffer) IN
            sess' = [sess EXCEPT ![s].wsOut = Append(sess[s].wsOut, sess[s].message),
                                 ![s].forward_tcp_task = nm.forward_tcp_task, ![s].message = nm.message,
                                 ![s].buffer = nm.buffer]
       ELSE \* ConnectionClosed: break leaves the inner while only
            sess' = [sess EXCEPT ![s].sendFailed = TRUE, ![s].forward_tcp_task = "read",
                                 ![s].message = <<>>]
    /\ UNCHANGED <<lifecycle, buffer_size, tcp, fr>>

-----------------------------------------------------------------------------
(* _forward_ws_to_tcp, lines 94-107 *)

\* a forwarder without line 106: the end of the iterator leaves the writer open
WsRecvLeavesWriter(s) ==
    LET c == sess[s].conn IN
    /\ sess[s].forward_ws_task = "recv"
    /\ IF sess[s].wsIn # <<>>
       THEN LET message == Head(sess[s].wsIn) IN
            /\ sess' = [sess EXCEPT ![s].wsIn = Tail(sess[s].wsIn), ![s].forward_ws_task = "drain"]
            /\ tcp' = [tcp EXCEPT ![c].out = tcp[c].out \o EncodeFrame(message),
                                  ![c].unflushed = tcp[c].unflushed + 1]
       ELSE /\ sess[s].ws = "closed"
            /\ sess' = [sess EXCEPT ![s].forward_ws_task = "wait_closed"]
            /\ tcp' = tcp
    /\ UNCHANGED <<lifecycle, buffer_size, fr>>

\* a forwarder without line 101: the next message is taken with the write of
\* the previous one still unflushed
WsRecvPipelined(s) ==
    LET c == sess[s].conn IN
    /\ sess[s].forward_ws_task = "recv"
    /\ IF sess[s].wsIn # <<>>
       THEN LET message == Head(sess[s].wsIn) IN
            /\ sess' = [sess EXCEPT ![s].wsIn = Tail(sess[s].wsIn)]
            /\ tcp' = [tcp EXCEPT ![c].out = tcp[c].out \o EncodeFrame(message),
                                  ![c].unflushed = tcp[c].unflushed + 1]
       ELSE /\ sess[s].ws = "closed"
            /\ sess' = [sess EXCEPT ![s].forward_ws_task = "wait_closed"]
            /\ tcp' = [tcp EXCEPT ![c].wclosed = TRUE]
    /\ UNCHANGED <<lifecycle, buffer_size, fr>>

\* lines 96-100 and 104-106: the iterator yields a message, or ends
WsRecv(s) ==
    LET c == sess[s].conn IN
    /\ sess[s].forward_ws_task = "recv" /\ ~sess[s].cancel_ws
    /\ IF sess[s].wsIn # <<>>
       THEN LET message == Head(sess[s].wsIn) IN
            /\ sess' = [sess EXCEPT ![s].wsIn = Tail(sess[s].wsIn), ![s].forward_ws_task = "drain"]
            /\ tcp' = [tcp EXCEPT ![c].out = tcp[c].out \o EncodeFrame(message),
                                  ![c].unflushed = tcp[c].unflushed + 1]
       ELSE \* the channel closed: to finally, writer.close()
            /\ sess[s].ws = "closed"
            /\ sess' = [sess EXCEPT ![s].forward_ws_task = "wait_closed"]
            /\ tcp' = [tcp EXCEPT ![c].wclosed = TRUE]
    /\ UNCHANGED <<lifecycle, buffer_size, fr>>

\* line 101: one completion of await writer.drain()
Drain(s) ==
    LET c == sess[s].conn IN
    /\ sess[s].forward_ws_task = "drain" /\ ~sess[s].cancel_ws
    /\ IF tcp[c].peer = "reset"
       THEN \* drain raises ConnectionResetError: through finally, writer.close()
            /\ sess' = [sess EXCEPT ![s].forward_ws_task = "wait_closed", ![s].ws_task_exc = TRUE]
            /\ tcp' = [tcp EXCEPT ![c].wclosed = TRUE]
       ELSE /\ sess' = [sess EXCEPT ![s].forward_ws_task = "recv"]
            /\ tcp' = [tcp EXCEPT ![c].unflushed = 0]
    /\ UNCHANGED <<lifecycle, buffer_size, fr>>

\* line 107: one completion of await writer.wait_closed()
WaitClosed(s) ==
    LET c == sess[s].conn IN
    /\ sess[s].forward_ws_task = "wait_closed" /\ ~sess[s].cancel_ws
    /\ sess' = [sess EXCEPT ![s].forward_ws_task =
                  IF sess[s].ws_task_exc \/ tcp[c].peer = "reset" THEN "error" ELSE "done"]
    /\ UNCHANGED <<lifecycle, buffer_size, tcp, fr>>

-----------------------------------------------------------------------------
(* _handle_ws_connection, lines 116-130 *)

\* the server calls the handler for an accepted connection
Accept(s) ==
    /\ sess[s].st = "free"
    /\ \E e \in TaskIds :
         /\ servers[e] = "open"
         /\ sess' = [sess EXCEPT ![s].st = "dial", ![s].srv = e, ![s].ws = "open"]
    /\ UNCHANGED <<lifecycle, buffer_size, tcp, fr>>

\* a handler that keeps one upstream connection and shares it
DialOkShared(s) ==
    /\ sess[s].st = "dial"
    /\ LET c == 1 IN
       /\ tcp' = [tcp EXCEPT ![c].state = "open",
                             ![c].peer = IF tcp[c].state = "none" THEN "open" ELSE tcp[c].peer]
       /\ sess' = [sess EXCEPT ![s].st = "run", ![s].conn = c,
                               ![s].dials = sess[s].dials + 1,
                               ![s].forward_tcp_task = "read", ![s].forward_ws_task = "recv"]
    /\ UNCHANGED <<lifecycle, buffer_size, fr>>

\* lines 118-123: open_connection returned; both forwarders are started
DialOk(s) ==
    /\ sess[s].st = "dial"
    /\ \E c \in Conns : tcp[c].state = "none"
    /\ LET c == NewConn IN
       /\ tcp' = [tcp EXCEPT ![c].state = "open", ![c].peer = "open"]
       /\ sess' = [sess EXCEPT ![s].st = "run", ![s].conn = c,
                               ![s].dials = sess[s].dials + 1,
                               ![s].forward_tcp_task = "read", ![s].forward_ws_task = "recv"]
    /\ UNCHANGED <<lifecycle, buffer_size, fr>>

\* a dial failure that takes the endpoint down with the session
DialFailStopsBridge(s) ==
    /\ sess[s].st = "dial"
    /\ sess' = [sess EXCEPT ![s].st = "done", ![s].dials = sess[s].dials + 1,
                            ![s].ws = "closed"]
    /\ servers' = [servers EXCEPT ![sess[s].srv] = "closed"]
    /\ ws_server' = 0
    /\ UNCHANGED <<ws_server_runner_task, tasks, stops, buffer_size, tcp, fr>>

\* lines 118, 127-130: open_connection raised; the handler returns and the
\* server closes the connection
DialFail(s) ==
    /\ sess[s].st = "dial"
    /\ sess' = [sess EXCEPT ![s].st = "done", ![s].dials = sess[s].dials + 1,
                            ![s].ws = "closed"]
    /\ UNCHANGED <<lifecycle, buffer_size, tcp, fr>>

\* line 123: gather returns once both forwarders have returned
HandlerReturn(s) ==
    /\ sess[s].st = "run"
    /\ sess[s].forward_tcp_task = "done" /\ sess[s].forward_ws_task = "done"
    /\ sess' = [sess EXCEPT ![s].st = "done", ![s].ws = "closed"]
    /\ UNCHANGED <<lifecycle, buffer_size, tcp, fr>>

\* a handler without the except clause of line 127: the exception of a
\* forwarder leaves the handler and takes the connections of its server down
HandlerErrorEscapes(s) ==
    /\ sess[s].st = "run"
    /\ sess[s].forward_tcp_task = "error" \/ sess[s].forward_ws_task = "error"
    /\ sess' = [o \in Sessions |->
                  IF o = s THEN [sess[o] EXCEPT !.st = "raised", !.ws = "closed"]
                  ELSE IF sess[o].srv = sess[s].srv /\ sess[o].ws = "open"
                  THEN [sess[o] EXCEPT !.ws = "closed"]
                  ELSE sess[o]]
    /\ UNCHANGED <<lifecycle, buffer_size, tcp, fr>>

\* lines 123, 127-130: gather re-raises the first exception of a forwarder at
\* once; the other forwarder is left running
HandlerError(s) ==
    /\ sess[s].st = "run"
    /\ sess[s].forward_tcp_task = "error" \/ sess[s].forward_ws_task = "error"
    /\ sess' = [sess EXCEPT ![s].st = "done", ![s].ws = "closed"]
    /\ UNCHANGED <<lifecycle, buffer_size, tcp, fr>>

-----------------------------------------------------------------------------
(* Cancellation of a session: Task.cancel() on the handler task *)

\* the handler task is cancelled while it awaits gather (line 123): gather
\* passes the request on to each forwarder task that is not done
HandlerCancel(s) ==
    /\ sess[s].st = "run"
    /\ ~sess[s].cancel_tcp /\ ~sess[s].cancel_ws
    /\ ~ForwarderDone(sess[s].forward_tcp_task) \/ ~ForwarderDone(sess[s].forward_ws_task)
    /\ sess' = [sess EXCEPT ![s].cancel_tcp = ~ForwarderDone(sess[s].forward_tcp_task),
                            ![s].cancel_ws = ~ForwarderDone(sess[s].forward_ws_task)]
    /\ UNCHANGED <<lifecycle, buffer_size, tcp, fr>>

\* lines 81-84: CancelledError is thrown into the await of line 66 or 76 and
\* caught; the forwarder returns
TcpCancelled(s) ==
    /\ sess[s].cancel_tcp
    /\ sess[s].forward_tcp_task \in {"read", "send"}
    /\ sess' = [sess EXCEPT ![s].forward_tcp_task = "done", ![s].cancel_tcp = FALSE]
    /\ UNCHANGED <<lifecycle, buffer_size, tcp, fr>>

\* a forwarder whose except clause returns at once, with no finally block
WsCancelledNoClose(s) ==
    /\ sess[s].cancel_ws
    /\ sess[s].forward_ws_task \in {"recv", "drain", "wait_closed"}
    /\ sess' = [sess EXCEPT ![s].forward_ws_task = "done", ![s].cancel_ws = FALSE]
    /\ UNCHANGED <<lifecycle, buffer_size, tcp, fr>>

\* lines 102-107: CancelledError thrown into the await of line 96 or 101 is
\* caught, then finally closes the writer and awaits the close; thrown into
\* the await of line 107 it leaves the finally block and the task is cancelled
WsCancelled(s) ==
    LET c == sess[s].conn IN
    /\ sess[s].cancel_ws
    /\ sess[s].forward_ws_task \in {"recv", "drain", "wait_closed"}
    /\ IF sess[s].forward_ws_task = "wait_closed"
       THEN /\ sess' = [sess EXCEPT ![s].forward_ws_task = "cancelled",
                                    ![s].cancel_ws = FALSE]
            /\ tcp' = tcp
       ELSE /\ sess' = [sess EXCEPT ![s].forward_ws_task = "wait_closed",
                                    ![s].cancel_ws = FALSE]
            /\ tcp' = [tcp EXCEPT ![c].wclosed = TRUE]
    /\ UNCHANGED <<lifecycle, buffer_size, fr>>

\* lines 123, 125-126: a cancelled forwarder task makes gather raise
\* CancelledError at once; the handler catches it and returns
HandlerCancelled(s) ==
    /\ sess[s].st = "run"
    /\ sess[s].forward_ws_task = "cancelled"
    /\ sess' = [sess EXCEPT ![s].st = "done", ![s].ws = "closed"]
    /\ UNCHANGED <<lifecycle, buffer_size, tcp, fr>>

-----------------------------------------------------------------------------
(* The peers: the WebSocket client of a connection, the TCP upstream *)

ClientSend(s, message) ==
    /\ sess[s].ws = "open"
    /\ Len(sess[s].wsSent) < MaxWsMsgs
    /\ sess' = [sess EXCEPT ![s].wsIn = Append(sess[s].wsIn, message),
                            ![s].wsSent = Append(sess[s].wsSent, message)]
    /\ UNCHANGED <<lifecycle, buffer_size, tcp, fr>>

ClientClose(s) ==
    /\ sess[s].ws = "open"
    /\ sess' = [sess EXCEPT ![s].ws = "closed"]
    /\ UNCHANGED <<lifecycle, buffer_size, tcp, fr>>

PeerSend(c, data) ==
    /\ tcp[c].state = "open" /\ tcp[c].peer = "open" /\ ~tcp[c].wclosed
    /\ Len(tcp[c].rx) + Len(tcp[c].inb) + Len(data) <= MaxStream
    /\ tcp' = [tcp EXCEPT ![c].inb = tcp[c].inb \o data]
    /\ UNCHANGED <<lifecycle, buffer_size, sess, fr>>

PeerClose(c) ==
    /\ tcp[c].state = "open" /\ tcp[c].peer = "open"
    /\ tcp' = [tcp EXCEPT ![c].peer = "eof"]
    /\ UNCHANGED <<lifecycle, buffer_size, sess, fr>>

PeerReset(c) ==
    /\ tcp[c].state = "open" /\ tcp[c].peer = "open"
    /\ tcp' = [tcp EXCEPT ![c].peer = "reset"]
    /\ UNCHANGED <<lifecycle, buffer_size, sess, fr>>

-----------------------------------------------------------------------------
(* The listening endpoint: websockets' server object *)

\* Server.close(): stop listening and close the open connections (code 1001)
ServerClose(e) ==
    /\ servers' = [servers EXCEPT ![e] = IF servers[e] = "open" THEN "closing" ELSE servers[e]]
    /\ sess' = [s \in Sessions |->
                  IF sess[s].srv = e /\ sess[s].ws = "open" /\ servers[e] = "open"
                  THEN [sess[s] EXCEPT !.ws = "closed"] ELSE sess[s]]

\* the server is closed once the handlers of its connections have returned:
\* this releases the wait_closed() calls of lines 140 and 162
ServerClosed(e) ==
    /\ servers[e] = "closing"
    /\ \A s \in Sessions : sess[s].srv = e => sess[s].st = "done"
    /\ servers' = [servers EXCEPT ![e] = "closed"]
    /\ UNCHANGED <<ws_server, ws_server_runner_task, tasks, stops, buffer_size, sess, tcp, fr>>

-----------------------------------------------------------------------------
(* _ws_server_runner, lines 137-142 *)

\* task.done(): returned, cancelled, or ended by an exception
TaskDone(t) == tasks[t].pc \in {"done", "cancelled", "failed"}

\* a runner without the except clause of line 141: a bind failure ends the task
\* with the exception
RunnerBindRaises(t) ==
    /\ tasks[t].pc = "serve" /\ ~tasks[t].cancel
    /\ \E bound \in BOOLEAN :
         IF bound
         THEN /\ servers' = [servers EXCEPT ![t] = "open"]
              /\ ws_server' = t
              /\ tasks' = [tasks EXCEPT ![t].pc = "wait_closed"]
         ELSE /\ tasks' = [tasks EXCEPT ![t].pc = "failed"]
              /\ UNCHANGED <<servers, ws_server>>
    /\ UNCHANGED <<ws_server_runner_task, stops, buffer_size, sess, tcp, fr>>

\* line 138: await websockets.serve(...) returns the bound server, or raises
\* (caught at line 141: the task finishes)
RunnerBind(t) ==
    /\ tasks[t].pc = "serve" /\ ~tasks[t].cancel
    /\ \E bound \in BOOLEAN :
         IF bound
         THEN /\ servers' = [servers EXCEPT ![t] = "open"]
              /\ ws_server' = t
              /\ tasks' = [tasks EXCEPT ![t].pc = "wait_closed"]
         ELSE /\ tasks' = [tasks EXCEPT ![t].pc = "done"]
              /\ UNCHANGED <<servers, ws_server>>
    /\ UNCHANGED <<ws_server_runner_task, stops, buffer_size, sess, tcp, fr>>

\* line 140: await self._ws_server.wait_closed() returns
RunnerClosed(t) ==
    /\ tasks[t].pc = "wait_closed" /\ ~tasks[t].cancel
    /\ servers[t] = "closed"
    /\ tasks' = [tasks EXCEPT ![t].pc = "done"]
    /\ UNCHANGED <<ws_server, ws_server_runner_task, servers, stops, buffer_size, sess, tcp, fr>>

\* CancelledError is thrown into the task at its await (line 138 or 140); it is
\* no Exception, so line 141 does not catch it
RunnerCancelled(t) ==
    /\ tasks[t].pc \in {"serve", "wait_closed"} /\ tasks[t].cancel
    /\ tasks' = [tasks EXCEPT ![t] = [pc |-> "cancelled", cancel |-> FALSE]]
    /\ UNCHANGED <<ws_server, ws_server_runner_task, servers, stops, buffer_size, sess, tcp, fr>>

-----------------------------------------------------------------------------
(* start, lines 150-152 *)

\* asyncio.create_task: a new task object
NewTask ==
    CHOOSE t \in TaskIds :
        tasks[t].pc = "none" /\ \A u \in TaskIds : u < t => tasks[u].pc # "none"

\* start() without the test of line 150
StartUnguarded ==
    /\ \E t \in TaskIds : tasks[t].pc = "none"
    /\ tasks' = [tasks EXCEPT ![NewTask] = [pc |-> "serve", cancel |-> FALSE]]
    /\ ws_server_runner_task' = NewTask
    /\ UNCHANGED <<ws_server, servers, stops, buffer_size, sess, tcp, fr>>

\* start() without the done() test of line 150
StartOnce ==
    IF ws_server_runner_task = 0
    THEN /\ \E t \in TaskIds : tasks[t].pc = "none"
         /\ tasks' = [tasks EXCEPT ![NewTask] = [pc |-> "serve", cancel |-> FALSE]]
         /\ ws_server_runner_task' = NewTask
         /\ UNCHANGED <<ws_server, servers, stops, buffer_size, sess, tcp, fr>>
    ELSE UNCHANGED vars

Start ==
    IF ws_server_runner_task = 0 \/ TaskDone(ws_server_runner_task)
    THEN /\ \E t \in TaskIds : tasks[t].pc = "none"
         /\ tasks' = [tasks EXCEPT ![NewTask] = [pc |-> "serve", cancel |-> FALSE]]
         /\ ws_server_runner_task' = NewTask
         /\ UNCHANGED <<ws_server, servers, stops, buffer_size, sess, tcp, fr>>
    ELSE UNCHANGED vars

-----------------------------------------------------------------------------
(* stop, lines 160-174 *)

\* lines 165-174, from the test of the task handle to the next suspension;
\* e is the server the call closed (0 when self._ws_server was None)
StopTask(i, e) ==
    IF ws_server_runner_task # 0 /\ ~TaskDone(ws_server_runner_task)
    THEN \* cancel(), then await the task
         /\ tasks' = [tasks EXCEPT ![ws_server_runner_task].cancel = TRUE]
         /\ stops' = [stops EXCEPT ![i] = [pc |-> "await_task", srv |-> e, task |-> ws_server_runner_task]]
         /\ UNCHANGED <<ws_server, ws_server_runner_task>>
    ELSE IF ws_server_runner_task # 0 /\ tasks[ws_server_runner_task].pc = "failed"
    THEN \* await re-raises the exception of the task: stop() raises
         /\ stops' = [stops EXCEPT ![i] = [pc |-> "raised", srv |-> e, task |-> ws_server_runner_task]]
         /\ UNCHANGED <<ws_server, ws_server_runner_task, tasks>>
    ELSE \* no task, or a finished one: cancel() does nothing and await returns
         \* (or raises CancelledError, caught) at once; lines 172-174
         /\ ws_server' = 0
         /\ ws_server_runner_task' = 0
         /\ stops' = [stops EXCEPT ![i] = [pc |-> "returned", srv |-> e, task |-> ws_server_runner_task]]
         /\ tasks' = tasks

\* a stop() that also ends the forwarders of the open connections
StopCallCancelsForwarders(i) ==
    /\ stops[i].pc \in {"idle", "returned", "raised"}
    /\ ws_server # 0 /\ servers[ws_server] = "open"
    /\ servers' = [servers EXCEPT ![ws_server] = "closing"]
    /\ sess' = [s \in Sessions |->
                  IF sess[s].srv = ws_server /\ sess[s].st = "run"
                  THEN [sess[s] EXCEPT !.ws = "closed", !.forward_tcp_task = "done", !.forward_ws_task = "done"]
                  ELSE sess[s]]
    /\ stops' = [stops EXCEPT ![i] = [pc |-> "wait_closed", srv |-> ws_server, task |-> 0]]
    /\ UNCHANGED <<ws_server, ws_server_runner_task, tasks, buffer_size, tcp, fr>>

\* lines 160-162: a call of stop(), up to its first suspension.  Calls may
\* overlap; a new call takes the first call record that is not in progress
StopCall(i) ==
    /\ stops[i].pc \in {"idle", "returned", "raised"}
    /\ \A j \in StopIds : j < i => stops[j].pc \in {"wait_closed", "await_task"}
    /\ IF ws_server # 0 /\ servers[ws_server] # "closed"
       THEN /\ ServerClose(ws_server)
            /\ stops' = [stops EXCEPT ![i] = [pc |-> "wait_closed", srv |-> ws_server, task |-> 0]]
            /\ UNCHANGED <<ws_server, ws_server_runner_task, tasks>>
       ELSE \* no server, or wait_closed() of a closed one, which returns at once
            /\ StopTask(i, ws_server)
            /\ UNCHANGED <<servers, sess>>
    /\ UNCHANGED <<buffer_size, tcp, fr>>

\* line 162: await self._ws_server.wait_closed() returns
StopClosed(i) ==
    /\ stops[i].pc = "wait_closed"
    /\ servers[stops[i].srv] = "closed"
    /\ StopTask(i, stops[i].srv)
    /\ UNCHANGED <<servers, buffer_size, sess, tcp, fr>>

\* stop() without line 172
StopTaskDoneKeepsServer(i) ==
    /\ stops[i].pc = "await_task"
    /\ TaskDone(stops[i].task)
    /\ ws_server_runner_task' = 0
    /\ stops' = [stops EXCEPT ![i].pc = "returned"]
    /\ UNCHANGED <<ws_server, tasks, servers, buffer_size, sess, tcp, fr>>

\* lines 168-174: await self._ws_server_runner_task returns or raises
\* CancelledError (caught at line 169)
StopTaskDone(i) ==
    /\ stops[i].pc = "await_task"
    /\ TaskDone(stops[i].task)
    /\ IF tasks[stops[i].task].pc = "failed"
       THEN \* any other exception of the task leaves stop() at line 168
            /\ stops' = [stops EXCEPT ![i].pc = "raised"]
            /\ UNCHANGED <<ws_server, ws_server_runner_task>>
       ELSE /\ ws_server' = 0
            /\ ws_server_runner_task' = 0
            /\ stops' = [stops EXCEPT ![i].pc = "returned"]
    /\ UNCHANGED <<tasks, servers, buffer_size, sess, tcp, fr>>

-----------------------------------------------------------------------------
(* A bridge that is Running (start() called, endpoint bound), no session yet *)

RunningBridge ==
    /\ ws_server = 1
    /\ ws_server_runner_task = 1
    /\ tasks = [t \in TaskIds |-> IF t = 1 THEN [pc |-> "wait_closed", cancel |-> FALSE]
                                           ELSE [pc |-> "none", cancel |-> FALSE]]
    /\ servers = [t \in TaskIds |-> IF t = 1 THEN "open" ELSE "none"]
    /\ stops = [i \in StopIds |-> [pc |-> "idle", srv |-> 0, task |-> 0]]

NoFraming == [pc |-> "off", message |-> [kind |-> "bin", data |-> <<>>], wire |-> <<>>,
              messages |-> <<>>, buffer |-> <<>>]

NoSessions ==
    /\ sess = [s \in Sessions |-> NoSession]
    /\ tcp = [c \in Conns |-> NoConn]

-----------------------------------------------------------------------------
(* TCP -> WS, one session, byte by byte: the upstream sends any stream of    *)
(* at most MaxStream bytes over StreamBytes, cut into reads in every way     *)

StreamBytes == {CR, LF, 65}

InitTcpToWs ==
    /\ RunningBridge
    /\ buffer_size \in {2, DefaultBufferSize}
    /\ NoSessions
    /\ fr = NoFraming

NextTcpToWs ==
    \/ Accept(1) \/ DialOk(1)
    \/ TcpRead(1) \/ WsSend(1)
    \/ WsRecv(1) \/ WaitClosed(1)
    \/ HandlerReturn(1)
    \/ ClientClose(1)
    \/ \E b \in StreamBytes : PeerSend(1, <<b>>)
    \/ PeerClose(1)

SpecTcpToWs == InitTcpToWs /\ [][NextTcpToWs]_vars

-----------------------------------------------------------------------------
(* WS -> TCP, one session: the client sends at most MaxWsMsgs messages       *)

\* 233 encodes to two bytes and 8364 to three
WsMessages ==
    {[kind |-> "text", data |-> <<>>],
     [kind |-> "text", data |-> <<65>>],
     [kind |-> "text", data |-> <<233>>],
     [kind |-> "text", data |-> <<8364, LF>>],
     [kind |-> "bin", data |-> <<233>>],
     [kind |-> "bin", data |-> <<CR, LF>>]}

InitWsToTcp ==
    /\ RunningBridge
    /\ buffer_size = DefaultBufferSize
    /\ NoSessions
    /\ fr = NoFraming

NextWsToTcp ==
    \/ Accept(1) \/ DialOk(1)
    \/ TcpRead(1)
    \/ WsRecv(1) \/ Drain(1) \/ WaitClosed(1)
    \/ HandlerReturn(1) \/ HandlerError(1)
    \/ \E m \in WsMessages : ClientSend(1, m)
    \/ ClientClose(1)
    \/ PeerClose(1) \/ PeerReset(1)

SpecWsToTcp == InitWsToTcp /\ [][NextWsToTcp]_vars

-----------------------------------------------------------------------------
(* The bridge from construction: start(), stop() calls that may overlap, the  *)
(* runner task, the endpoint, and one WebSocket connection that carries no    *)
(* traffic (the endpoint is closed only after its handlers have returned)     *)

Init ==
    /\ ws_server = 0
    /\ ws_server_runner_task = 0
    /\ buffer_size = DefaultBufferSize
    /\ tasks = [t \in TaskIds |-> [pc |-> "none", cancel |-> FALSE]]
    /\ servers = [t \in TaskIds |-> "none"]
    /\ stops = [i \in StopIds |-> [pc |-> "idle", srv |-> 0, task |-> 0]]
    /\ NoSessions
    /\ fr = NoFraming

SessionStep(s) ==
    \/ Accept(s) \/ DialOk(s) \/ DialFail(s)
    \/ TcpRead(s) \/ WsSend(s)
    \/ WsRecv(s) \/ Drain(s) \/ WaitClosed(s)
    \/ HandlerReturn(s) \/ HandlerError(s)

StopStep(i) == StopCall(i) \/ StopClosed(i) \/ StopTaskDone(i)

RunnerStep(t) == RunnerBind(t) \/ RunnerClosed(t) \/ RunnerCancelled(t)

Next ==
    \/ Start
    \/ \E i \in StopIds : StopStep(i)
    \/ \E t \in TaskIds : RunnerStep(t) \/ ServerClosed(t)
    \/ Accept(1) \/ DialOk(1) \/ DialFail(1)
    \/ TcpRead(1) \/ WsRecv(1) \/ WaitClosed(1)
    \/ HandlerReturn(1)
    \/ ClientClose(1)

Spec == Init /\ [][Next]_vars

-----------------------------------------------------------------------------
(* Two WebSocket connections over a running bridge.  The upstream of          *)
(* connection c sends one frame PeerFrame(c), the client of session s sends   *)
(* one message ClientMessage(s)                                               *)

PeerFrame(c) == <<64 + c, CR, LF>>
ClientMessage(s) == [kind |-> "bin", data |-> <<96 + s>>]

InitPair ==
    /\ RunningBridge
    /\ buffer_size = DefaultBufferSize
    /\ NoSessions
    /\ fr = NoFraming

ClientStep(s) ==
    \/ ClientClose(s)
    \/ (sess[s].wsSent = <<>> /\ ClientSend(s, ClientMessage(s)))

PeerStep(c) ==
    \/ PeerClose(c)
    \/ PeerReset(c)
    \/ (tcp[c].rx = <<>> /\ tcp[c].inb = <<>> /\ PeerSend(c, PeerFrame(c)))

NextPair ==
    \/ \E s \in Sessions : SessionStep(s)
    \/ \E s \in Sessions : ClientStep(s)
    \/ \E c \in Conns : PeerStep(c)

SpecPair == InitPair /\ [][NextPair]_vars

-----------------------------------------------------------------------------
(* One stop() call on a running bridge with connections in flight             *)

NextStop ==
    \/ StopStep(1)
    \/ RunnerClosed(1) \/ RunnerCancelled(1) \/ ServerClosed(1)
    \/ \E s \in Sessions :
         \/ Accept(s) \/ DialOk(s) \/ TcpRead(s) \/ WsSend(s)
         \/ WsRecv(s) \/ Drain(s) \/ WaitClosed(s) \/ HandlerReturn(s)
         \/ (sess[s].wsSent = <<>> /\ ClientSend(s, ClientMessage(s)))
         \/ ClientClose(s)
    \/ \E c \in Conns :
         \/ (tcp[c].rx = <<>> /\ tcp[c].inb = <<>> /\ PeerSend(c, PeerFrame(c)))
         \/ PeerClose(c)

SpecStop == InitPair /\ [][NextStop]_vars

-----------------------------------------------------------------------------
(* One session whose transports deliver what they are given: the event loop  *)
(* resumes a forwarder whose await can complete, and the handler when gather *)
(* can return.  The peers are free: each sends at most one frame or message  *)
(* and closes when it likes, or never                                        *)

NextWsClose ==
    \/ Accept(1) \/ DialOk(1)
    \/ TcpRead(1) \/ WsSend(1)
    \/ WsRecv(1) \/ Drain(1) \/ WaitClosed(1)
    \/ HandlerReturn(1)
    \/ (sess[1].wsSent = <<>> /\ ClientSend(1, ClientMessage(1)))
    \/ ClientClose(1)
    \/ (tcp[1].rx = <<>> /\ tcp[1].inb = <<>> /\ PeerSend(1, PeerFrame(1)))
    \/ PeerClose(1)

FairWsClose ==
    /\ WF_vars(TcpRead(1)) /\ WF_vars(WsSend(1))
    /\ WF_vars(WsRecv(1)) /\ WF_vars(Drain(1)) /\ WF_vars(WaitClosed(1))
    /\ WF_vars(HandlerReturn(1))

SpecWsClose == InitPair /\ [][NextWsClose]_vars /\ FairWsClose

-----------------------------------------------------------------------------
(* One session with every way a forwarder can end: the end of either stream, *)
(* a reset of the TCP connection, and the cancellation of the handler        *)

NextCancel ==
    \/ Accept(1) \/ DialOk(1)
    \/ TcpRead(1) \/ WsSend(1)
    \/ WsRecv(1) \/ Drain(1) \/ WaitClosed(1)
    \/ HandlerReturn(1) \/ HandlerError(1)
    \/ HandlerCancel(1) \/ TcpCancelled(1) \/ WsCancelled(1) \/ HandlerCancelled(1)
    \/ (sess[1].wsSent = <<>> /\ ClientSend(1, ClientMessage(1)))
    \/ ClientClose(1)
    \/ (tcp[1].rx = <<>> /\ tcp[1].inb = <<>> /\ PeerSend(1, PeerFrame(1)))
    \/ PeerClose(1) \/ PeerReset(1)

SpecCancel == InitPair /\ [][NextCancel]_vars

-----------------------------------------------------------------------------
(* The framing round trip as pure functions: a message is encoded as line    *)
(* 97-100 does and the bytes are decoded as lines 71-73 do                    *)

FramingBytes == {CR, LF, 65}

RECURSIVE SeqsUpTo(_, _)
SeqsUpTo(S, n) ==
    IF n = 0 THEN {<<>>}
    ELSE LET shorter == SeqsUpTo(S, n - 1) IN
         shorter \cup {Append(q, x) : q \in shorter, x \in S}

FramingMessages ==
    {[kind |-> "bin", data |-> d] : d \in SeqsUpTo(FramingBytes, MaxPayload)}
        \cup {[kind |-> "text", data |-> d] : d \in SeqsUpTo({233, LF}, 2)}

InitFraming ==
    /\ RunningBridge
    /\ buffer_size = DefaultBufferSize
    /\ NoSessions
    /\ fr \in {[NoFraming EXCEPT !.pc = "message", !.message = m] : m \in FramingMessages}

FramingEncode ==
    /\ fr.pc = "message"
    /\ fr' = [fr EXCEPT !.pc = "wire", !.wire = EncodeFrame(fr.message)]
    /\ UNCHANGED <<lifecycle, buffer_size, sess, tcp>>

FramingDecode ==
    /\ fr.pc = "wire"
    /\ LET d == DecodeBuffer(Extend(<<>>, fr.wire)) IN
       fr' = [fr EXCEPT !.pc = "decoded", !.messages = d.messages, !.buffer = d.buffer]
    /\ UNCHANGED <<lifecycle, buffer_size, sess, tcp>>

NextFraming == FramingEncode \/ FramingDecode

SpecFraming == InitFraming /\ [][NextFraming]_vars

-----------------------------------------------------------------------------
(* Properties *)

Unfinished(t) == tasks[t].pc \in {"serve", "wait_closed"}

NoStopYet == \A i \in StopIds : stops[i].pc = "idle"

\* C1: start() is idempotent.  With no stop() called so far at most one runner
\* task is unfinished and at most one endpoint is listening; and a step creates
\* a runner task or changes the task handle only when the handle was None or
\* its task was finished, so a start() while the runner is unfinished changes
\* nothing.
C1_StartIdempotent ==
    /\ [](NoStopYet =>
            /\ Cardinality({t \in TaskIds : Unfinished(t)}) <= 1
            /\ Cardinality({e \in TaskIds : servers[e] = "open"}) <= 1)
    /\ [][(ws_server_runner_task # 0 /\ Unfinished(ws_server_runner_task) /\ NoStopYet /\ NoStopYet') =>
            /\ ws_server_runner_task' = ws_server_runner_task
            /\ \A t \in TaskIds : tasks[t].pc = "none" => tasks'[t].pc = "none"]_vars

\* two start() calls, the first runner ended by a bind failure: one runner, one endpoint
C1_Witness ==
    /\ NoStopYet
    /\ tasks[1].pc = "done" /\ servers[1] = "none"
    /\ ws_server_runner_task = 2 /\ tasks[2].pc = "wait_closed" /\ servers[2] = "open"

\* C2: a stop() call that completes has raised no error, leaves both handles
\* None, and the endpoint and the runner task it found are closed and finished.
C2_StopSafe ==
    /\ [](\A i \in StopIds : stops[i].pc # "raised")
    /\ [][\A i \in StopIds :
            (stops'[i].pc = "returned" /\ stops'[i] # stops[i]) =>
               /\ ws_server' = 0
               /\ ws_server_runner_task' = 0
               /\ stops'[i].srv # 0 => servers'[stops'[i].srv] = "closed"
               /\ stops'[i].task # 0 =>
                     tasks'[stops'[i].task].pc \in {"done", "cancelled"}]_vars

\* a stop() on a Running bridge has returned: it found endpoint 1 and task 1
C2_Witness ==
    /\ stops[1] = [pc |-> "returned", srv |-> 1, task |-> 1]
    /\ ws_server = 0 /\ ws_server_runner_task = 0
    /\ servers[1] = "closed" /\ tasks[1].pc = "cancelled"

-----------------------------------------------------------------------------
(* Reference definitions of the wire format, independent of the code above *)

\* the positions at which a CR LF starts
CRLFAt(stream) ==
    {i \in 1..(Len(stream) - 1) : stream[i] = CR /\ stream[i + 1] = LF}

ContainsCRLF(stream) == CRLFAt(stream) # {}

\* the k-th position of CRLFAt(stream)
NthCRLF(stream, k) ==
    CHOOSE i \in CRLFAt(stream) :
        Cardinality({j \in CRLFAt(stream) : j < i}) = k - 1

\* the CR LF terminated frames of a byte stream, in order
FramesOf(stream) ==
    [k \in 1..Cardinality(CRLFAt(stream)) |->
        SubSeq(stream,
               IF k = 1 THEN 1 ELSE NthCRLF(stream, k - 1) + 2,
               NthCRLF(stream, k) - 1)]

\* the bytes after the last CR LF of a stream
AfterLastCRLF(stream) ==
    LET n == Cardinality(CRLFAt(stream)) IN
    IF n = 0 THEN stream
    ELSE SubSeq(stream, NthCRLF(stream, n) + 2, Len(stream))

IsPrefix(p, q) == Len(p) <= Len(q) /\ SubSeq(q, 1, Len(p)) = p

\* the UTF-8 encoding of the code points the clients use
Utf8Table(cp) ==
    CASE cp = 65 -> <<65>>
      [] cp = CR -> <<13>>
      [] cp = LF -> <<10>>
      [] cp = 233 -> <<195, 169>>
      [] cp = 8364 -> <<226, 130, 172>>

RECURSIVE Flatten(_)
Flatten(seqs) == IF seqs = <<>> THEN <<>> ELSE Head(seqs) \o Flatten(Tail(seqs))

\* the payload bytes of a WebSocket message
PayloadBytes(message) ==
    IF message.kind = "text"
    THEN Flatten([k \in 1..Len(message.data) |-> Utf8Table(message.data[k])])
    ELSE message.data

\* what the TCP peer must see for a sequence of WebSocket messages
WireOf(messages) ==
    Flatten([k \in 1..Len(messages) |-> PayloadBytes(messages[k]) \o <<13, 10>>])

\* C3: while no send has failed, the messages sent on the WebSocket are, in
\* order, the CR LF terminated frames of the bytes read so far, however the
\* stream was cut into reads: a prefix of them at any time, all of them
\* whenever the forwarder awaits a read or has ended; no message holds a CR LF,
\* and what follows the last CR LF stays in the buffer, unsent.
C3_TcpToWsFraming ==
    \A s \in Sessions :
        (sess[s].conn # 0 /\ ~sess[s].sendFailed) =>
            LET frames == FramesOf(tcp[sess[s].conn].rx) IN
            /\ IsPrefix(sess[s].wsOut, frames)
            /\ sess[s].forward_tcp_task \in {"read", "done"} =>
                  /\ sess[s].wsOut = frames
                  /\ sess[s].buffer = AfterLastCRLF(tcp[sess[s].conn].rx)
            /\ sess[s].forward_tcp_task = "send" =>
                  IsPrefix(Append(sess[s].wsOut, sess[s].message), frames)
            /\ \A k \in 1..Len(sess[s].wsOut) : ~ContainsCRLF(sess[s].wsOut[k])

\* reads of at most 2 bytes: "A\r", "\n\r", "\n" gave the messages "A" and ""
C3_Witness ==
    /\ buffer_size = 2
    /\ tcp[1].rx = <<65, CR, LF, CR, LF>>
    /\ sess[1].wsOut = <<<<65>>, <<>>>>
    /\ ~sess[1].sendFailed

\* C4: the bytes written to the TCP writer are the payloads of the messages
\* taken from the WebSocket so far, in order, text as UTF-8 and binary as is,
\* each followed by one CR LF.
C4_WsToTcpWire ==
    \A s \in Sessions :
        sess[s].conn # 0 =>
            tcp[sess[s].conn].out =
                WireOf(SubSeq(sess[s].wsSent, 1, Len(sess[s].wsSent) - Len(sess[s].wsIn)))

\* text "€\n" then binary E9: both written, E2 82 AC 0A CR LF E9 CR LF
C4_Witness ==
    /\ sess[1].wsSent = <<[kind |-> "text", data |-> <<8364, LF>>],
                          [kind |-> "bin", data |-> <<233>>]>>
    /\ sess[1].wsIn = <<>>
    /\ tcp[1].out = <<226, 130, 172, 10, 13, 10, 233, 13, 10>>

\* C6: a payload without CR LF, encoded as the WS -> TCP forwarder does and
\* decoded as the TCP -> WS forwarder does, gives that one frame and an empty
\* buffer.
C6_RoundTrip ==
    (fr.pc = "decoded" /\ ~ContainsCRLF(PayloadBytes(fr.message))) =>
        /\ fr.messages = <<PayloadBytes(fr.message)>>
        /\ fr.buffer = <<>>

\* the payload LF CR 'A' went through
C6_Witness ==
    /\ fr.pc = "decoded"
    /\ fr.message = [kind |-> "bin", data |-> <<LF, CR, 65>>]
    /\ fr.messages = <<<<LF, CR, 65>>>>

\* C7: a read after which the accumulated buffer holds no CR LF sends nothing
\* and keeps the whole buffer; a read that completes a buffer without CR LF
\* makes the bytes before the first CR LF the next message, and a send adds
\* exactly that message.
C7_PartialFrame ==
    [][\A s \in Sessions :
         LET c == sess[s].conn
             data == SubSeq(tcp'[c].rx, Len(tcp[c].rx) + 1, Len(tcp'[c].rx))
             acc == sess[s].buffer \o data
         IN /\ (c # 0 /\ tcp'[c].rx # tcp[c].rx /\ ~ContainsCRLF(acc)) =>
                  /\ sess'[s].buffer = acc
                  /\ sess'[s].wsOut = sess[s].wsOut
                  /\ sess'[s].forward_tcp_task = "read"
            /\ (c # 0 /\ tcp'[c].rx # tcp[c].rx /\ ContainsCRLF(acc)
                  /\ ~ContainsCRLF(sess[s].buffer)) =>
                  /\ sess'[s].forward_tcp_task = "send"
                  /\ sess'[s].message = FramesOf(acc)[1]
                  /\ sess'[s].wsOut = sess[s].wsOut
            /\ sess'[s].wsOut # sess[s].wsOut =>
                  sess'[s].wsOut = Append(sess[s].wsOut, sess[s].message)]_vars

\* reads of at most 2 bytes: "AA" was kept, then "\r\n" completed the message
C7_Witness ==
    /\ buffer_size = 2
    /\ tcp[1].rx = <<65, 65, CR, LF>>
    /\ sess[1].wsOut = <<<<65, 65>>>>
    /\ sess[1].buffer = <<>>

\* a step of the bridge in session s: of a forwarder, or the return of gather
BridgeStep(s) ==
    \/ TcpRead(s) \/ WsSend(s) \/ WsRecv(s) \/ Drain(s) \/ WaitClosed(s)
    \/ HandlerReturn(s) \/ HandlerError(s)

\* C8: once either forwarder of a running session has terminated, the bridge
\* itself can always take the session further towards its end: it never waits
\* on the peer that is still open.
C8_TeardownOnEitherSide ==
    \A s \in Sessions :
        (sess[s].st = "run"
            /\ (sess[s].forward_tcp_task \in {"done", "error"} \/ sess[s].forward_ws_task \in {"done", "error"}))
        => ENABLED BridgeStep(s)


\* C5: after a session has ended, with or without a reachable upstream, the
\* bridge is still Running: the endpoint handle is set and its endpoint
\* listens, the runner task is unfinished, and a further connection is
\* accepted.
C5_SessionEndKeepsBridge ==
    (\E s \in Sessions : sess[s].st = "done") =>
        /\ ws_server # 0 /\ servers[ws_server] = "open"
        /\ ws_server_runner_task # 0 /\ Unfinished(ws_server_runner_task)
        /\ \A s \in Sessions : sess[s].st = "free" => ENABLED Accept(s)

\* the first connection ended on a dial failure; a later one has its session
C5_Witness ==
    /\ sess[1].st = "done" /\ sess[1].dials = 1 /\ sess[1].conn = 0
    /\ sess[2].st = "run" /\ sess[2].srv = ws_server
    /\ servers[ws_server] = "open"

\* C9: every session whose dial succeeded made one open_connection call and
\* has a TCP connection no other session has; the messages sent on its
\* WebSocket hold only bytes of its own upstream, and the bytes written to a
\* TCP writer come only from the client of the session that owns it.
C9_OneToOne ==
    /\ \A s \in Sessions :
          /\ sess[s].st = "run" => (sess[s].dials = 1 /\ sess[s].conn # 0)
          /\ sess[s].st = "done" => sess[s].dials = 1
          /\ sess[s].conn # 0 =>
                \A k \in 1..Len(sess[s].wsOut) : \A n \in 1..Len(sess[s].wsOut[k]) :
                    sess[s].wsOut[k][n] = 64 + sess[s].conn
    /\ \A s1, s2 \in Sessions :
          (s1 # s2 /\ sess[s1].conn # 0) => sess[s1].conn # sess[s2].conn
    /\ \A c \in Conns : \A n \in 1..Len(tcp[c].out) :
          \/ tcp[c].out[n] \in {CR, LF}
          \/ \E s \in Sessions : sess[s].conn = c /\ tcp[c].out[n] = 96 + s

\* session 2 dialled first: both sessions relayed their own frame and message
C9_Witness ==
    /\ sess[1].conn = 2 /\ sess[2].conn = 1
    /\ sess[1].wsOut = <<<<66>>>> /\ sess[2].wsOut = <<<<65>>>>
    /\ tcp[2].out = <<97, CR, LF>> /\ tcp[1].out = <<98, CR, LF>>

-----------------------------------------------------------------------------
(* Lifecycle under failure and interleaving *)

StopInProgress(i) == stops[i].pc \in {"wait_closed", "await_task"}

\* the step in which the serve() call of runner t raised
BindFailed(t) == tasks[t].pc = "serve" /\ ~tasks[t].cancel /\ tasks'[t].pc \notin {"serve", "wait_closed"}

\* C11: a bind failure is contained.  The step in which serve() raises ends
\* the runner task normally and changes nothing else: the endpoint handle is
\* what it was (None on a bridge that was not running), no endpoint exists
\* for the task, and no stop() call is touched.  No runner task ever ends with
\* an exception and no stop() call raises; and a task starts a bind attempt
\* only in a start() call, which makes it the task of the handle.
C11_BindFailureContained ==
    /\ [](/\ \A t \in TaskIds : tasks[t].pc # "failed"
          /\ \A i \in StopIds : stops[i].pc # "raised"
          /\ (\A t \in TaskIds : servers[t] = "none") => ws_server = 0)
    /\ [][\A t \in TaskIds :
            /\ BindFailed(t) =>
                 /\ tasks'[t].pc = "done"
                 /\ servers'[t] = "none"
                 /\ UNCHANGED <<ws_server, ws_server_runner_task, servers, stops, sess, tcp>>
                 /\ \A u \in TaskIds : u # t => tasks'[u] = tasks[u]
            /\ (tasks[t].pc # "serve" /\ tasks'[t].pc = "serve") =>
                 /\ tasks[t].pc = "none"
                 /\ ws_server_runner_task = 0 \/ TaskDone(ws_server_runner_task)
                 /\ ws_server_runner_task' = t]_vars

\* the bind of the only runner failed and a later stop() returned: nothing was
\* ever bound, both handles are None
C11_Witness ==
    /\ tasks[1].pc = "done" /\ tasks[2].pc = "none"
    /\ \A t \in TaskIds : servers[t] = "none"
    /\ stops[1] = [pc |-> "returned", srv |-> 0, task |-> 1]
    /\ ws_server = 0 /\ ws_server_runner_task = 0

-----------------------------------------------------------------------------
(* Sessions under failure *)

\* C12: join-all.  Once the handler of a session whose dial succeeded has
\* returned, both forwarders of the session have terminated, also when one of
\* them ended with an unexpected error.
C12_JoinAll ==
    \A s \in Sessions :
        (sess[s].st = "done" /\ sess[s].conn # 0) =>
            /\ ForwarderDone(sess[s].forward_tcp_task)
            /\ ForwarderDone(sess[s].forward_ws_task)

\* C13: once a send on the WebSocket has failed because the channel is closed,
\* the TCP -> WS forwarder has left its loop: it completes no further read of
\* the TCP stream, attempts no further send, and does not end with an error.
C13_SendFailureStopsForwarder ==
    [][\A s \in Sessions :
         sess[s].sendFailed =>
            /\ sess'[s].forward_tcp_task = sess[s].forward_tcp_task
            /\ tcp'[sess[s].conn].rx = tcp[sess[s].conn].rx
            /\ sess'[s].wsOut = sess[s].wsOut
            /\ sess'[s].forward_tcp_task # "error"]_vars

\* C14: a WebSocket close ends the session.  When the channel of a running
\* session is closed, then (the event loop resuming what can proceed)
\* eventually the WS -> TCP forwarder has returned with the TCP writer closed,
\* the TCP -> WS forwarder has returned on a read of zero bytes, and the
\* handler has returned.
C14_WsCloseEndsSession ==
    \A s \in Sessions :
        (sess[s].st = "run" /\ sess[s].ws = "closed") ~>
            /\ sess[s].st = "done"
            /\ sess[s].forward_ws_task = "done"
            /\ tcp[sess[s].conn].wclosed
            /\ sess[s].forward_tcp_task = "done"

\* the client sent a message and closed; the upstream never closed its side,
\* and the session is over
C14_Witness ==
    /\ sess[1].st = "done" /\ tcp[1].peer = "open"
    /\ sess[1].forward_ws_task = "done" /\ sess[1].forward_tcp_task = "done"
    /\ tcp[1].wclosed /\ tcp[1].out = <<97, CR, LF>>

\* a step of the TCP -> WS forwarder of session s
TcpForwarderStep(s) ==
    /\ sess[s].forward_tcp_task # "idle"
    /\ \/ sess'[s].forward_tcp_task # sess[s].forward_tcp_task
       \/ sess'[s].buffer # sess[s].buffer
       \/ sess'[s].wsOut # sess[s].wsOut
       \/ sess'[s].sendFailed # sess[s].sendFailed

\* C15: the WS -> TCP forwarder owns the teardown of the TCP writer.  However
\* it ends (end of the message sequence, closed channel, cancellation, write
\* or flush error), it ends at its await of writer.wait_closed() and the
\* writer has been closed; it returns, or raises its error, only when that
\* await has completed.  No step of the TCP -> WS forwarder closes the TCP
\* writer, the TCP connection or the WebSocket channel.
C15_WriterTeardownOwnership ==
    /\ [](\A s \in Sessions :
            ForwarderDone(sess[s].forward_ws_task) => tcp[sess[s].conn].wclosed)
    /\ [][\A s \in Sessions :
            /\ (~ForwarderDone(sess[s].forward_ws_task)
                  /\ ForwarderDone(sess'[s].forward_ws_task)) =>
                 /\ sess[s].forward_ws_task = "wait_closed"
                 /\ tcp[sess[s].conn].wclosed
                 /\ sess'[s].forward_ws_task \in {"done", "error"} => ~sess[s].cancel_ws
            /\ TcpForwarderStep(s) =>
                 /\ tcp'[sess[s].conn].wclosed = tcp[sess[s].conn].wclosed
                 /\ tcp'[sess[s].conn].state = tcp[sess[s].conn].state
                 /\ sess'[s].ws = sess[s].ws]_vars

\* both forwarders were cancelled while both transports were open: the
\* WS -> TCP forwarder closed the writer and returned, the channel is open
C15_Witness ==
    /\ sess[1].st = "run" /\ sess[1].ws = "open" /\ tcp[1].peer = "open"
    /\ sess[1].forward_ws_task = "done" /\ sess[1].forward_tcp_task = "done"
    /\ tcp[1].wclosed

\* C16: a dial failure abandons the session.  The step in which
\* open_connection raises ends the handler and changes nothing but that
\* session: no TCP connection, no other session, and nothing of the endpoint,
\* the runner task or a stop() call.  From then on neither forwarder of the
\* session is ever started, no message is sent on its channel, and what the
\* client sent on it is never taken.
C16_DialFailureAbandons ==
    /\ [](\A s \in Sessions :
            (sess[s].st = "done" /\ sess[s].conn = 0) =>
                /\ sess[s].forward_tcp_task = "idle"
                /\ sess[s].forward_ws_task = "idle"
                /\ sess[s].wsOut = <<>>
                /\ sess[s].wsIn = sess[s].wsSent)
    /\ [][\A s \in Sessions :
            (sess[s].st = "dial" /\ sess'[s].st = "done") =>
                /\ sess'[s] = [sess[s] EXCEPT !.st = "done", !.ws = "closed",
                                              !.dials = sess[s].dials + 1]
                /\ \A o \in Sessions : o # s => sess'[o] = sess[o]
                /\ UNCHANGED <<tcp, ws_server, ws_server_runner_task, tasks, servers, stops>>]_vars

\* the dial of session 1 failed with a message of its client waiting, which
\* stays untaken; session 2 relays in both directions
C16_Witness ==
    /\ sess[1].st = "done" /\ sess[1].conn = 0
    /\ sess[1].wsSent = <<ClientMessage(1)>> /\ sess[1].wsIn = <<ClientMessage(1)>>
    /\ sess[2].st = "run" /\ sess[2].wsOut = <<<<65>>>>
    /\ tcp[1].out = <<98, CR, LF>>

\* the state of everything outside session s: the other sessions, the TCP
\* connections that are not its own, the endpoint, the runner, the stop() calls
Outside(s) ==
    <<[o \in Sessions \ {s} |-> sess[o]],
      [c \in Conns \ {sess[s].conn} |-> tcp[c]],
      ws_server, ws_server_runner_task, tasks, servers, stops>>

\* C17: forwarder errors stay inside their session.  The step in which a
\* forwarder of a session ends with an unexpected error, and the step in which
\* the handler of that session ends because of it, change nothing outside
\* the session; the error is always caught by the handler, which can return
\* at once and returns normally.
C17_ErrorsStayInSession ==
    /\ [](\A s \in Sessions :
            /\ sess[s].st # "raised"
            /\ (sess[s].st = "run"
                  /\ (sess[s].forward_tcp_task = "error" \/ sess[s].forward_ws_task = "error"))
               => ENABLED HandlerError(s))
    /\ [][\A s \in Sessions :
            /\ (sess'[s].forward_tcp_task = "error" /\ sess[s].forward_tcp_task # "error")
                  => Outside(s)' = Outside(s)
            /\ (sess'[s].forward_ws_task = "error" /\ sess[s].forward_ws_task # "error")
                  => Outside(s)' = Outside(s)
            /\ (sess[s].st = "run" /\ sess'[s].st # "run"
                  /\ (sess[s].forward_tcp_task = "error" \/ sess[s].forward_ws_task = "error"))
                  => /\ sess'[s].st = "done"
                     /\ Outside(s)' = Outside(s)
                     /\ tcp' = tcp]_vars

\* the upstream of session 2 was reset: its read failed and its handler has
\* returned, while session 1 relayed its frame and its message
C17_Witness ==
    /\ sess[1].conn = 1 /\ sess[2].conn = 2
    /\ sess[2].st = "done" /\ sess[2].forward_tcp_task = "error"
    /\ tcp[2].peer = "reset"
    /\ sess[1].st = "run" /\ sess[1].ws = "open" /\ tcp[1].peer = "open"
    /\ sess[1].wsOut = <<<<65>>>>
    /\ tcp[1].out = <<97, CR, LF>>

\* the step takes a message of session s from its WebSocket
Consumes(s) == sess[s].wsIn # <<>> /\ sess'[s].wsIn = Tail(sess[s].wsIn)

\* C18: no write pipelining.  At most one message of a session is written
\* and not yet flushed; a message is taken from the WebSocket only when no
\* write is unflushed, and it is written in the same step; and as long as the
\* flush of a written message has not completed, no message of the session is
\* taken and nothing more is written.
C18_NoPipelining ==
    /\ [](\A c \in Conns : tcp[c].unflushed <= 1)
    /\ [](\A s \in Sessions :
            (sess[s].conn # 0 /\ tcp[sess[s].conn].unflushed = 1
                /\ ~ForwarderDone(sess[s].forward_ws_task))
            => sess[s].forward_ws_task \in {"drain", "wait_closed"})
    /\ [][\A s \in Sessions :
            /\ Consumes(s) =>
                 /\ tcp[sess[s].conn].unflushed = 0
                 /\ tcp'[sess[s].conn].unflushed = 1
                 /\ tcp'[sess[s].conn].out =
                       tcp[sess[s].conn].out \o EncodeFrame(Head(sess[s].wsIn))
            /\ (sess[s].conn # 0 /\ tcp[sess[s].conn].unflushed = 1
                  /\ tcp'[sess[s].conn].unflushed = 1) =>
                 /\ ~Consumes(s)
                 /\ tcp'[sess[s].conn].out = tcp[sess[s].conn].out]_vars

\* two messages were sent by the client: the first is written and its flush
\* is pending, the second waits in the WebSocket
C18_Witness ==
    /\ sess[1].forward_ws_task = "drain" /\ tcp[1].unflushed = 1
    /\ Len(sess[1].wsSent) = 2 /\ sess[1].wsIn = <<sess[1].wsSent[2]>>
    /\ tcp[1].out = EncodeFrame(sess[1].wsSent[1])

\* the states of the bridge
Idle == ws_server = 0 /\ ws_server_runner_task = 0

Running ==
    /\ ws_server # 0 /\ servers[ws_server] = "open"
    /\ ws_server_runner_task = ws_server /\ tasks[ws_server].pc = "wait_closed"

\* no stop() is suspended, and the runner handle is None or its task finished
Restartable ==
    /\ \A i \in StopIds : ~StopInProgress(i)
    /\ ws_server_runner_task = 0 \/ TaskDone(ws_server_runner_task)

\* a start() call that spawns a runner task
StartSpawns == Start /\ ws_server_runner_task' \notin {0, ws_server_runner_task}

\* the serve() call of runner t returns the bound server
BindSucceeds(t) == RunnerBind(t) /\ tasks'[t].pc = "wait_closed"

\* C19: the lifecycle is restartable.  The bridge becomes Idle only by the
\* return of a stop() call.  Whenever no stop() is in progress and the runner
\* handle is None or its task has finished (after a completed stop(), a bind
\* failure, or the close of the endpoint), start() spawns a runner task: a new
\* task, made the task of the handle, at its bind attempt.  A runner at its
\* bind attempt can bind, and when it does the endpoint handle is its
\* listening endpoint, so that with the handle still on this task the bridge
\* is Running with both handles set.
C19_Restartable ==
    /\ [](/\ (Restartable /\ \E t \in TaskIds : tasks[t].pc = "none")
              => ENABLED StartSpawns
          /\ \A t \in TaskIds :
               (tasks[t].pc = "serve" /\ ~tasks[t].cancel) => ENABLED BindSucceeds(t))
    /\ [][/\ (Idle' /\ ~Idle) =>
                \E i \in StopIds : stops'[i] # stops[i] /\ stops'[i].pc = "returned"
          /\ (Restartable /\ ws_server_runner_task' \notin {0, ws_server_runner_task}) =>
                /\ tasks[ws_server_runner_task'].pc = "none"
                /\ tasks'[ws_server_runner_task'] = [pc |-> "serve", cancel |-> FALSE]
          /\ \A t \in TaskIds :
               (tasks[t].pc = "serve" /\ tasks'[t].pc = "wait_closed") =>
                  /\ ws_server' = t /\ servers'[t] = "open"
                  /\ ws_server_runner_task = t => Running']_vars

\* start(), stop() completed, start() again: the second runner has bound a
\* new endpoint and both handles are set to it
C19_Witness ==
    /\ stops[1] = [pc |-> "returned", srv |-> 1, task |-> 1]
    /\ stops[2].pc = "idle"
    /\ servers[1] = "closed" /\ tasks[1].pc = "cancelled"
    /\ Running /\ ws_server = 2

\* C20: no endpoint is leaked, however start(), stop() and the runner
\* interleave.  Whenever no stop() is in progress and both handles are None,
\* no endpoint is listening and no runner task is unfinished.
C20_NoLeakedEndpoint ==
    ((\A i \in StopIds : ~StopInProgress(i)) /\ Idle) =>
        /\ \A e \in TaskIds : servers[e] # "open"
        /\ \A t \in TaskIds : ~Unfinished(t)

=============================================================================
